---- MODULE Spec2Model ----
(***************************************************************************)
(* Record / playback engine of Auton-Replayer (class AutonReplay).         *)
(*                                                                         *)
(* The state is the AutonReplay singleton, the function-local statics of   *)
(* playback(), the storage file, the hardware collaborators (clock, IMU,   *)
(* motors, pistons, controller screen) and the position of a running       *)
(* playback() call.  Times are milliseconds.                               *)
(***************************************************************************)
EXTENDS Integers, Sequences, FiniteSets, TLC

\* ------------------------------------------------------------------ bounds
MaxFrames == 2        \* recordFrame() calls per recording the model follows
MaxTime   == 10       \* longest recording followed, in ms
MaxStart  == 10       \* latest instant at which a playback() is started
MaxReplayFrames == 3  \* frames per recording in the replay specification
MaxRestart == 60      \* latest start of a playback() in the replay specification
MaxOver   == 1        \* frames past MAX_FRAMES the long-recording specification follows

\* ------------------------------------------------------- program constants
BTN_R1 == 0
BTN_R2 == 1
BTN_L1 == 2
BTN_L2 == 3
BTN_X  == 4
BTN_A  == 5
BTN_B  == 6
MAX_FRAMES   == 15000   \* sanity bound of loadFromSD
SettleMs     == 50      \* pros::delay(50) after imu.set_heading(0)
PollMs       == 10      \* pros::delay(10) of the playback loop
DefaultGain  == 2       \* imuCorrectionGain = 2.0f
MaxCorrection == 30     \* clamp of the steering correction
MotorMax     == 127     \* motor command range
TickMs       == PollMs  \* the clock is followed at the granularity of a poll
LoopMs       == 20      \* pros::delay(20) of the control loop

\* ------------------------------------------------------------ input sets
\* controller / sensor samples recordFrame() may read: stick values are
\* int8 in -127..127, headings lie in [0, 360), buttons use bits 0..6
Headings == {0, 350}
Samples  == {[l |-> 100, r |-> -127, h |-> 350, b |-> 1],
             [l |-> -127, r |-> 100, h |-> 0, b |-> 0]}
\* samples of the replay specification: each of the seven buttons is in a
\* different subset of the three non-zero masks (85 = R1, L1, X, B;
\* 102 = R2, L1, A, B; 120 = L2, X, A, B)
ReplaySamples == {[l |-> 100, r |-> 100, h |-> 0, b |-> 0],
                  [l |-> 100, r |-> 100, h |-> 0, b |-> 85],
                  [l |-> 100, r |-> 100, h |-> 0, b |-> 102],
                  [l |-> 100, r |-> 100, h |-> 0, b |-> 120]}
\* how much longer than asked a pros::delay() may take
Jitter == {0, 10}
\* the counts a damaged or foreign file may claim
ForgedCounts == {MAX_FRAMES, MAX_FRAMES + 1}
\* inputs of the long-recording specification: the controller is held at
\* one sample, and the control loop runs for about half of MAX_FRAMES frames
LongSamples == {[l |-> 100, r |-> 100, h |-> 0, b |-> 0]}
RunLengths  == {MAX_FRAMES \div 2, MAX_FRAMES \div 2 + 1}
\* inputs of the drive specification.  A file that this program did not
\* write holds one frame of arbitrary bytes: stick bytes 128 (-128), 129
\* (-127), 255 (-1), 0, 100 and 127, headings in [0, 360), no button or
\* X, A and B together
StickBytes   == {128, 129, 255, 0, 100, 127}
FileHeadings == {0, 10, 40, 180, 350}
ForeignBlocks ==
  {[ts |-> <<0, 0, 0, 0>>, l |-> lb, r |-> rb, h |-> h, b |-> b] :
     lb \in StickBytes, rb \in {128, 0, 127}, h \in FileHeadings,
     b \in {0, 112}}
\* what imu.get_heading() may return during a dispatch, in [0, 360)
LiveHeadings == {0, 10, 180, 190, 350}
\* gains setIMUCorrectionGain() is called with, in tenths: 0, 0.5, 2.0, a
\* reversed and a very large one
Gains == {0, 5, 20, -20, 1000}

VARIABLES
  recording,          \* std::vector<RecordedFrame>
  recordStartTime,    \* uint32_t
  _isRecording,       \* bool
  _isPlaying,         \* bool
  prevButtons,        \* uint8_t
  imuCorrectionGain,  \* float, held in tenths (20 is 2.0f)
  statics,            \* the seven static bool latches local to playback()
  file,               \* contents of /usd/auton_recording.bin, or NoFile
  now,                \* pros::millis()
  imuHeading,         \* IMU heading reference: the power-on heading, or the value set
  actuators,          \* last value commanded to each motor group and piston
  pc,                 \* position of the running playback() call, or "idle"
  playStartTime,      \* local of playback()
  frameIndex,         \* local of playback()
  elapsed,            \* local of playback()'s outer loop
  lastCall,           \* history: the last public call, if the file is as it left it
  cmds,               \* history: number of actuator commands of the current call
  out,                \* history: controller-screen lines printed by the call
  imuResets,          \* history: imu.set_heading(0) calls made by the call
  dispatched,         \* history: frames dispatched by the current playback
  startLatch,         \* history: the statics when the current playback began
  prevRun,            \* history: the playback run completed just before
  applied,            \* history: the drive correction of the last dispatch
  savedLog            \* history: the log written by the last successful save

vars == <<recording, recordStartTime, _isRecording, _isPlaying, prevButtons,
          imuCorrectionGain, statics, file, now, imuHeading,
          actuators, pc, playStartTime, frameIndex, elapsed, lastCall, cmds,
          out, imuResets, dispatched, startLatch, prevRun, applied,
          savedLog>>

progVars == <<recording, recordStartTime, _isRecording, _isPlaying,
              prevButtons, imuCorrectionGain, statics>>
hist == <<lastCall, cmds, out, imuResets, dispatched, startLatch, prevRun,
          applied, savedLog>>
playLocals == <<pc, playStartTime, frameIndex, elapsed>>

\* no file on the card / no completed run / no intact save / no dispatch
NoFile  == [exists |-> FALSE, hdr |-> <<>>, blocks |-> <<>>]
NoRun   == [valid |-> FALSE, log |-> <<>>, trace |-> <<>>]
NoSave  == [valid |-> FALSE, log |-> <<>>]
NoDrive == [valid |-> FALSE, live |-> 0, error |-> 0, corr10 |-> 0,
            left |-> 0, right |-> 0]

\* ------------------------------------------------------------ Frame codec
Bit(mask, bit) == (mask \div (2 ^ bit)) % 2 = 1

\* static_cast<int8_t> / the byte an int8_t occupies in the file
ToByte(v)   == (v + 256) % 256
FromByte(b) == IF b >= 128 THEN b - 256 ELSE b

\* little-endian bytes of a uint32_t
LE32(n) == <<n % 256, (n \div 256) % 256, (n \div 65536) % 256,
             (n \div 16777216) % 256>>
FromLE32(b) == b[1] + 256 * b[2] + 65536 * b[3] + 16777216 * b[4]

\* fwrite(&frame, sizeof(RecordedFrame), 1, file): the block of one frame
EncodeFrame(f) ==
  [ts |-> LE32(f.timestamp), l |-> ToByte(f.leftStick),
   r |-> ToByte(f.rightStick), h |-> f.heading, b |-> f.buttons]

\* mutant: the stick bytes read back as unsigned
DecodeFrameUnsigned(blk) ==
  [timestamp |-> FromLE32(blk.ts), leftStick |-> blk.l,
   rightStick |-> blk.r, heading |-> blk.h, buttons |-> blk.b]

\* fread(&recording[i], sizeof(RecordedFrame), 1, file)
DecodeFrame(blk) ==
  [timestamp |-> FromLE32(blk.ts), leftStick |-> FromByte(blk.l),
   rightStick |-> FromByte(blk.r), heading |-> blk.h, buttons |-> blk.b]

EncodeAll(log) == [i \in 1..Len(log) |-> EncodeFrame(log[i])]
DecodeAll(blks) == [i \in 1..Len(blks) |-> DecodeFrame(blks[i])]

\* --------------------------------------------------------------- helpers
\* uint32_t a - b for two reads a >= b of the millisecond clock (the
\* difference never wraps: the later read is the larger)
Sub32(a, b) == a - b

\* wasPressed(current, prev, bit): rising edge of one button bit
wasPressed(current, prev, bit) == Bit(current, bit) /\ ~Bit(prev, bit)

Cmd(dev, val) == [dev |-> dev, val |-> val]
B2I(b) == IF b THEN 1 ELSE 0

\* the motor / piston state after a sequence of commands
RECURSIVE ApplyCmds(_, _)
ApplyCmds(act, cs) ==
  IF cs = <<>> THEN act
  ELSE ApplyCmds([act EXCEPT ![Head(cs).dev] = Head(cs).val], Tail(cs))

TruncDiv(a, b) == IF a >= 0 THEN a \div b ELSE -((-a) \div b)
Clamp(v, lo, hi) == IF v > hi THEN hi ELSE IF v < lo THEN lo ELSE v

\* while (error > 180) error -= 360;  while (error < -180) error += 360;
RECURSIVE Wrap180(_)
Wrap180(error) ==
  IF error > 180 THEN Wrap180(error - 360)
  ELSE IF error < -180 THEN Wrap180(error + 360)
  ELSE error

\* applyHeadingCorrection(left, right, targetHeading, currentHeading) with
\* the gain given in tenths; the result is the pair <<left, right>>
\* mutant: the error is not wrapped
HeadingErrorRaw(targetHeading, currentHeading) ==
  targetHeading - currentHeading

\* float error = targetHeading - currentHeading; and the two wrap loops
HeadingError(targetHeading, currentHeading) ==
  Wrap180(targetHeading - currentHeading)

\* mutant: the correction is not clamped
CorrectionUnclamped(error, gain10) == error * gain10

\* float correction = error * imuCorrectionGain; clamped to +-30; in tenths
Correction(error, gain10) ==
  Clamp(error * gain10, -10 * MaxCorrection, 10 * MaxCorrection)

applyHeadingCorrection(left, right, targetHeading, currentHeading, gain10) ==
  LET error  == HeadingError(targetHeading, currentHeading)
      corr10 == Correction(error, gain10)
      l1     == TruncDiv(10 * left - corr10, 10)
      r1     == TruncDiv(10 * right + corr10, 10)
  IN  <<Clamp(l1, -MotorMax, MotorMax), Clamp(r1, -MotorMax, MotorMax)>>

\* one "if (wasPressed(...)) { static bool x; x = !x; M.move(x ? v : 0); }"
MotorToggle(s, cur, prev, bit, latch, dev, speed) ==
  IF wasPressed(cur, prev, bit)
  THEN LET v == ~s.st[latch]
       IN  [st   |-> [s.st EXCEPT ![latch] = v],
            cmds |-> Append(s.cmds, Cmd(dev, IF v THEN speed ELSE 0))]
  ELSE s

\* the mid-scoring toggle (X): piston, and both rollers reversed on entry
MidToggle(s, cur, prev) ==
  IF wasPressed(cur, prev, BTN_X)
  THEN LET v == ~s.st.midScoring
       IN  [st   |-> [s.st EXCEPT !.midScoring = v],
            cmds |-> s.cmds \o <<Cmd("MidScoring", B2I(v))>> \o
                     (IF v THEN <<Cmd("Intake", -MotorMax),
                                  Cmd("Outtake", -MotorMax)>>
                           ELSE <<>>)]
  ELSE s

\* the pneumatic toggles (A = descore, B = unloader)
PistonToggle(s, cur, prev, bit, latch, dev) ==
  IF wasPressed(cur, prev, bit)
  THEN LET v == ~s.st[latch]
       IN  [st   |-> [s.st EXCEPT ![latch] = v],
            cmds |-> Append(s.cmds, Cmd(dev, B2I(v)))]
  ELSE s

\* the button section of the dispatch loop body, in source order
HandleButtons(cur, prev, st) ==
  LET s0 == [st |-> st, cmds |-> <<>>]
      s1 == MotorToggle(s0, cur, prev, BTN_R1, "intakeForward", "Intake", MotorMax)
      s2 == MotorToggle(s1, cur, prev, BTN_R2, "intakeReverse", "Intake", -MotorMax)
      s3 == MotorToggle(s2, cur, prev, BTN_L1, "outtakeForward", "Outtake", MotorMax)
      s4 == MotorToggle(s3, cur, prev, BTN_L2, "outtakeReverse", "Outtake", -MotorMax)
      s5 == MidToggle(s4, cur, prev)
      s6 == PistonToggle(s5, cur, prev, BTN_A, "descore", "Descore")
      s7 == PistonToggle(s6, cur, prev, BTN_B, "unloader", "Unloader")
  IN  s7

\* ------------------------------------------------------------ persistence
\* fopen(path, "rb") != NULL, given whether the card can be accessed
CanRead(card) == card /\ file.exists
\* fopen(path, "wb") != NULL
CanWrite(card) == card

\* what saveToSD() leaves in the file: the count, then every frame
\* mutant: the count prefix is written as zero
SavedFileNoCount(log) ==
  [exists |-> TRUE, hdr |-> <<0>>, blocks |-> EncodeAll(log)]

SavedFile(log) ==
  [exists |-> TRUE, hdr |-> <<Len(log)>>, blocks |-> EncodeAll(log)]

\* loadFromSD() as a function of the storage and the log before the call:
\* the value returned and the log afterwards
LoadResult(log, card) ==
  IF ~CanRead(card) THEN [ok |-> FALSE, log |-> log]
  ELSE IF Len(file.hdr) # 1 THEN [ok |-> FALSE, log |-> log]
  ELSE IF file.hdr[1] > MAX_FRAMES THEN [ok |-> FALSE, log |-> log]
  ELSE IF Len(file.blocks) < file.hdr[1] THEN [ok |-> FALSE, log |-> <<>>]
  ELSE [ok |-> TRUE, log |-> DecodeAll(SubSeq(file.blocks, 1, file.hdr[1]))]

NoLatch == [intakeForward |-> FALSE, intakeReverse |-> FALSE,
            outtakeForward |-> FALSE, outtakeReverse |-> FALSE,
            midScoring |-> FALSE, descore |-> FALSE, unloader |-> FALSE]

Neutral == [left_motors |-> 0, right_motors |-> 0, Intake |-> 0, Outtake |-> 0,
            MidScoring |-> 0, Descore |-> 0, Unloader |-> 0]

\* a public call, what it returned and whether its fopen succeeded
Call(op, ret, fopen) == [op |-> op, ret |-> ret, fopen |-> fopen]
Ret(ok) == IF ok THEN "true" ELSE "false"
Opened(ok) == IF ok THEN "ok" ELSE "fail"

\* ------------------------------------------------------------------- Init
Init ==
  /\ recording = <<>>
  /\ recordStartTime = 0
  /\ _isRecording = FALSE
  /\ _isPlaying = FALSE
  /\ prevButtons = 0
  /\ imuCorrectionGain = 10 * DefaultGain
  /\ statics = NoLatch
  /\ file = NoFile
  /\ now = 0
  /\ imuHeading \in Headings
  /\ actuators = Neutral
  /\ pc = "idle"
  /\ playStartTime = 0
  /\ frameIndex = 0
  /\ elapsed = 0
  /\ lastCall = Call("none", "void", "none")
  /\ cmds = 0
  /\ out = <<>>
  /\ imuResets = 0
  /\ dispatched = <<>>
  /\ startLatch = NoLatch
  /\ prevRun = NoRun
  /\ applied = NoDrive
  /\ savedLog = NoSave

\* history variables at the start of a public call other than playback()
NewCall(op, ret, fopen, printed, resets) ==
  /\ lastCall' = Call(op, ret, fopen)
  /\ out' = printed
  /\ imuResets' = resets
  /\ cmds' = 0
  /\ dispatched' = <<>>
  /\ prevRun' = NoRun
  /\ applied' = NoDrive
  /\ UNCHANGED startLatch

\* ---------------------------------------------------------------- Recorder
\* mutant: the start instant of the recording before is kept
StartInstantStale == recordStartTime

\* recordStartTime = pros::millis();
StartInstant == now

startRecording ==
  /\ pc = "idle"
  /\ recording' = <<>>
  /\ recordStartTime' = StartInstant
  /\ _isRecording' = TRUE
  /\ imuHeading' = 0
  /\ NewCall("startRecording", "void", "none", <<"RECORDING...">>, 1)
  /\ UNCHANGED <<_isPlaying, prevButtons, imuCorrectionGain, statics, file,
                 now, actuators, playLocals, savedLog>>

\* the file part of saveToSD(): written when the card can be opened
SaveEffect(card) ==
  IF CanWrite(card)
  THEN /\ file' = SavedFile(recording)
       /\ savedLog' = [valid |-> TRUE, log |-> recording]
  ELSE UNCHANGED <<file, savedLog>>

stopRecording(saveToSD, card) ==
  /\ pc = "idle"
  /\ _isRecording' = FALSE
  /\ IF saveToSD
     THEN /\ SaveEffect(card)
          /\ NewCall("stopRecording", "void", Opened(CanWrite(card)),
                     <<"STOPPED", IF CanWrite(card) THEN "SAVED TO SD!"
                                  ELSE "SD SAVE FAILED!">>, 0)
     ELSE /\ UNCHANGED <<file, savedLog>>
          /\ NewCall("stopRecording", "void", "none", <<"STOPPED">>, 0)
  /\ UNCHANGED <<recording, recordStartTime, _isPlaying, prevButtons,
                 imuCorrectionGain, statics, now, imuHeading, actuators,
                 playLocals>>

\* the frame recordFrame() builds from the controller and IMU sample s
\* when the clock reads t
FrameAt(s, t) ==
  [timestamp |-> Sub32(t, recordStartTime),
   leftStick |-> FromByte(ToByte(s.l)), rightStick |-> FromByte(ToByte(s.r)),
   heading |-> s.h, buttons |-> s.b]

NewFrame(s) == FrameAt(s, now)

\* mutant: the early return is missing
RecordAlways == TRUE

\* if (!_isRecording) return;
RecordGuard == _isRecording

recordFrame(S, maxLen) ==
  /\ pc = "idle"
  /\ IF RecordGuard
     THEN /\ Len(recording) < maxLen
          /\ Sub32(now, recordStartTime) <= MaxTime
          /\ \E s \in S : recording' = Append(recording, NewFrame(s))
     ELSE UNCHANGED recording
  /\ NewCall("recordFrame", "void", "none", <<>>, 0)
  /\ UNCHANGED <<recordStartTime, _isRecording, _isPlaying, prevButtons,
                 imuCorrectionGain, statics, file, now, imuHeading, actuators,
                 playLocals, savedLog>>

\* n iterations of a control loop that calls recordFrame() and then
\* pros::delay(20), with the controller held at sample s, while Recording
RecordRun(s, n) ==
  /\ pc = "idle"
  /\ RecordGuard
  /\ Len(recording) + n <= MAX_FRAMES + MaxOver
  /\ now + LoopMs * n <= LoopMs * (MAX_FRAMES + MaxOver)
  /\ recording' = recording \o
                    [i \in 1..n |-> FrameAt(s, now + LoopMs * (i - 1))]
  /\ now' = now + LoopMs * n
  /\ NewCall("recordFrame", "void", "none", <<>>, 0)
  /\ UNCHANGED <<recordStartTime, _isRecording, _isPlaying, prevButtons,
                 imuCorrectionGain, statics, file, imuHeading, actuators,
                 playLocals, savedLog>>

clearRecording ==
  /\ pc = "idle"
  /\ recording' = <<>>
  /\ NewCall("clearRecording", "void", "none", <<"RECORDING CLEARED">>, 0)
  /\ UNCHANGED <<recordStartTime, _isRecording, _isPlaying, prevButtons,
                 imuCorrectionGain, statics, file, now, imuHeading, actuators,
                 playLocals, savedLog>>

\* int getFrameCount() const { return recording.size(); }
getFrameCount == Len(recording)

\* if (recording.empty()) return 0;  return recording.back().timestamp;
getDuration ==
  IF recording = <<>> THEN 0 ELSE recording[Len(recording)].timestamp

\* void setIMUCorrectionGain(float gain) { imuCorrectionGain = gain; }
setIMUCorrectionGain(gain10) ==
  /\ pc = "idle"
  /\ imuCorrectionGain' = gain10
  /\ NewCall("setIMUCorrectionGain", "void", "none", <<>>, 0)
  /\ UNCHANGED <<recording, recordStartTime, _isRecording, _isPlaying,
                 prevButtons, statics, file, now, imuHeading, actuators,
                 playLocals, savedLog>>

\* ------------------------------------------------------- Persistence layer
saveToSD(card) ==
  /\ pc = "idle"
  /\ SaveEffect(card)
  /\ NewCall("saveToSD", Ret(CanWrite(card)), Opened(CanWrite(card)), <<>>, 0)
  /\ UNCHANGED <<progVars, now, imuHeading, actuators, playLocals>>

loadFromSD(card) ==
  /\ pc = "idle"
  /\ LET res == LoadResult(recording, card)
     IN  /\ recording' = res.log
         /\ NewCall("loadFromSD", Ret(res.ok), Opened(CanRead(card)),
                    IF res.ok THEN <<"LOADED">> ELSE <<>>, 0)
  /\ UNCHANGED <<recordStartTime, _isRecording, _isPlaying, prevButtons,
                 imuCorrectionGain, statics, file, now, imuHeading, actuators,
                 playLocals, savedLog>>

\* -------------------------------------------------- Drift-corrected player
\* the latch values and toggle commands of the frames dispatched so far
Toggles(ds) ==
  [i \in 1..Len(ds) |-> [latch |-> ds[i].latch, toggles |-> ds[i].toggles]]

\* mutant: the result of the load is ignored
ProceedsAlways(res) == TRUE

\* if (recording.empty()) { if (!loadFromSD()) { ...; return; } }
\* whether playback() goes on to replay, given what the load returned
Proceeds(res) == res.ok

\* _isPlaying = true;
EnterPlaying == TRUE

\* mutant: storage is read on every call
NeedsLoadAlways == TRUE

\* if (recording.empty())
NeedsLoad == recording = <<>>

\* playback(), from the call to the settle delay (or to the early return)
PlaybackBegin(card, latest) ==
  /\ pc = "idle"
  /\ now <= latest
  /\ LET empty == NeedsLoad
         res == IF empty THEN LoadResult(recording, card)
                ELSE [ok |-> TRUE, log |-> recording]
         fopen == IF empty THEN Opened(CanRead(card)) ELSE "none"
     IN  /\ recording' = res.log
         /\ prevRun' = IF lastCall.op = "playback" /\ lastCall.ret = "void"
                       THEN [valid |-> TRUE, log |-> recording,
                             trace |-> Toggles(dispatched)]
                       ELSE NoRun
         /\ cmds' = 0
         /\ dispatched' = <<>>
         /\ applied' = NoDrive
         /\ startLatch' = statics
         /\ IF Proceeds(res)
            THEN /\ _isPlaying' = EnterPlaying
                 /\ prevButtons' = 0
                 /\ imuHeading' = 0
                 /\ imuResets' = 1
                 /\ out' = IF empty THEN <<"LOADED">> ELSE <<>>
                 /\ pc' = "settle"
                 /\ lastCall' = Call("playback", "running", fopen)
            ELSE /\ out' = <<"NO RECORDING!">>
                 /\ imuResets' = 0
                 /\ lastCall' = Call("playback", "norecording", fopen)
                 /\ UNCHANGED <<_isPlaying, prevButtons, imuHeading, pc>>
  /\ UNCHANGED <<recordStartTime, _isRecording, imuCorrectionGain, statics,
                 file, now, actuators, playStartTime, frameIndex, elapsed,
                 savedLog>>

\* pros::delay(50); playStartTime = pros::millis(); frameIndex = 0; print
PlaybackSettle ==
  /\ pc = "settle"
  /\ now' = now + SettleMs
  /\ playStartTime' = now'
  /\ frameIndex' = 0
  /\ out' = Append(out, "REPLAYING...")
  /\ pc' = "loop"
  /\ UNCHANGED <<progVars, file, imuHeading, actuators, elapsed, lastCall,
                 cmds, imuResets, dispatched, startLatch, prevRun, applied,
                 savedLog>>

\* while (frameIndex < recording.size())
LoopGuard == frameIndex < Len(recording)

\* uint32_t elapsed = pros::millis() - playStartTime;
PollSample ==
  /\ pc = "loop"
  /\ LoopGuard
  /\ elapsed' = Sub32(now, playStartTime)
  /\ pc' = "frames"
  /\ UNCHANGED <<progVars, file, now, imuHeading, actuators, playStartTime,
                 frameIndex, hist>>

\* mutant: a frame is due only after its timestamp has passed
FrameDueStrict ==
  /\ frameIndex < Len(recording)
  /\ recording[frameIndex + 1].timestamp < elapsed

\* frameIndex < recording.size() && recording[frameIndex].timestamp <= elapsed
FrameDue ==
  /\ frameIndex < Len(recording)
  /\ recording[frameIndex + 1].timestamp <= elapsed

\* mutant: the previous mask is cleared instead of updated
NextPrevCleared(currentButtons) == 0

\* prevButtons = currentButtons;
NextPrev(currentButtons) == currentButtons

\* one iteration of the inner loop: the frame at frameIndex is dispatched
DispatchFrame(H) ==
  /\ pc = "frames"
  /\ FrameDue
  /\ \E currentHeading \in H :
       LET frame == recording[frameIndex + 1]
           lr    == applyHeadingCorrection(frame.leftStick, frame.rightStick,
                        frame.heading, currentHeading, imuCorrectionGain)
           drive == <<Cmd("left_motors", lr[1]), Cmd("right_motors", lr[2])>>
           tg    == HandleButtons(frame.buttons, prevButtons, statics)
       IN  /\ statics' = tg.st
           /\ cmds' = cmds + Len(drive) + Len(tg.cmds)
           /\ actuators' = ApplyCmds(actuators, drive \o tg.cmds)
           /\ prevButtons' = NextPrev(frame.buttons)
           /\ dispatched' = Append(dispatched,
                 [idx |-> frameIndex + 1, elapsed |-> elapsed,
                  latch |-> tg.st, toggles |-> tg.cmds])
           /\ applied' =
                 [valid |-> TRUE, live |-> currentHeading,
                  error |-> HeadingError(frame.heading, currentHeading),
                  corr10 |-> Correction(HeadingError(frame.heading,
                                 currentHeading), imuCorrectionGain),
                  left |-> lr[1], right |-> lr[2]]
  /\ frameIndex' = frameIndex + 1
  /\ UNCHANGED <<recording, recordStartTime, _isRecording, _isPlaying,
                 imuCorrectionGain, file, now, imuHeading, pc, playStartTime,
                 elapsed, lastCall, out, imuResets, startLatch, prevRun,
                 savedLog>>

\* the inner loop is left; pros::delay(10), which takes late more
PollDelay(late) ==
  /\ pc = "frames"
  /\ ~FrameDue
  /\ now' = now + PollMs + late
  /\ pc' = "loop"
  /\ UNCHANGED <<progVars, file, imuHeading, actuators, playStartTime,
                 frameIndex, elapsed, hist>>

\* the commands issued after the loop
StopCmds == <<Cmd("left_motors", 0), Cmd("right_motors", 0),
              Cmd("Intake", 0), Cmd("Outtake", 0)>>

PlaybackFinish ==
  /\ pc = "loop"
  /\ ~LoopGuard
  /\ cmds' = cmds + Len(StopCmds)
  /\ actuators' = ApplyCmds(actuators, StopCmds)
  /\ _isPlaying' = FALSE
  /\ out' = Append(out, "REPLAY COMPLETE!")
  /\ pc' = "idle"
  /\ lastCall' = [lastCall EXCEPT !.ret = "void"]
  /\ playStartTime' = 0 /\ frameIndex' = 0 /\ elapsed' = 0  \* locals end
  /\ applied' = NoDrive
  /\ UNCHANGED <<recording, recordStartTime, _isRecording, prevButtons,
                 imuCorrectionGain, statics, file, now, imuHeading, imuResets,
                 dispatched, startLatch, prevRun, savedLog>>

\* ------------------------------------------------------------ environment
\* time passes between two calls
Tick ==
  /\ pc = "idle"
  /\ now + TickMs <= MaxTime
  /\ now' = now + TickMs
  /\ UNCHANGED <<progVars, file, imuHeading, actuators, playLocals, hist>>

\* the stored file loses its tail (an interrupted write, a damaged card)
TruncateFile ==
  /\ pc = "idle"
  /\ file.exists
  /\ file.hdr # <<>>
  /\ file' = IF file.blocks # <<>>
             THEN [file EXCEPT !.blocks = SubSeq(@, 1, Len(@) - 1)]
             ELSE [file EXCEPT !.hdr = <<>>]
  /\ savedLog' = NoSave
  /\ lastCall' = Call("none", "void", "none")
  /\ UNCHANGED <<progVars, now, imuHeading, actuators, playLocals, cmds, out,
                 imuResets, dispatched, startLatch, prevRun, applied>>

\* the stored file is replaced by one whose count prefix is out of range
ForgeCount ==
  /\ pc = "idle"
  /\ file.exists
  /\ \E c \in ForgedCounts : file' = [file EXCEPT !.hdr = <<c>>]
  /\ savedLog' = NoSave
  /\ lastCall' = Call("none", "void", "none")
  /\ UNCHANGED <<progVars, now, imuHeading, actuators, playLocals, cmds, out,
                 imuResets, dispatched, startLatch, prevRun, applied>>

\* a card holding a file this program did not write is inserted
PlantFile ==
  /\ pc = "idle"
  /\ ~file.exists
  /\ \E blk \in ForeignBlocks :
       file' = [exists |-> TRUE, hdr |-> <<1>>, blocks |-> <<blk>>]
  /\ savedLog' = NoSave
  /\ lastCall' = Call("none", "void", "none")
  /\ UNCHANGED <<progVars, now, imuHeading, actuators, playLocals, cmds, out,
                 imuResets, dispatched, startLatch, prevRun, applied>>

Next ==
  \/ startRecording
  \/ \E persist \in BOOLEAN, card \in BOOLEAN : stopRecording(persist, card)
  \/ recordFrame(Samples, MaxFrames)
  \/ clearRecording
  \/ \E card \in BOOLEAN : saveToSD(card)
  \/ \E card \in BOOLEAN : loadFromSD(card)
  \/ \E card \in BOOLEAN : PlaybackBegin(card, MaxStart)
  \/ PlaybackSettle
  \/ PollSample
  \/ DispatchFrame(Headings)
  \/ PollDelay(0)
  \/ PlaybackFinish
  \/ Tick
  \/ TruncateFile
  \/ ForgeCount

Spec == Init /\ [][Next]_vars

\* A playback() call that has started keeps running: it is a blocking call
\* of one task, and each pros::delay() returns after the delay has passed.
PlaybackStep ==
  \/ PlaybackSettle
  \/ PollSample
  \/ DispatchFrame(Headings)
  \/ PollDelay(0)
  \/ PlaybackFinish

SpecFair == Spec /\ WF_vars(PlaybackStep)

\* The recorder and the player alone, with recordings of up to
\* MaxReplayFrames frames over all seven buttons, late polls and repeated
\* playback() calls.  Nothing is saved, so every load fails; the recording
\* is not stopped, which the player does not look at.
NextReplay ==
  \/ startRecording
  \/ recordFrame(ReplaySamples, MaxReplayFrames)
  \/ PlaybackBegin(FALSE, MaxRestart)
  \/ PlaybackSettle
  \/ PollSample
  \/ DispatchFrame({0})
  \/ \E late \in Jitter : PollDelay(late)
  \/ PlaybackFinish
  \/ Tick

SpecReplay == Init /\ [][NextReplay]_vars

\* The player on a stored file this program did not write: one frame of
\* any stick bytes, heading and buttons, replayed under any gain and any
\* live heading.  The session is Idle when playback() is called.
NextDrive ==
  \/ PlantFile
  \/ \E gain10 \in Gains : setIMUCorrectionGain(gain10)
  \/ \E card \in BOOLEAN : PlaybackBegin(card, MaxStart)
  \/ PlaybackSettle
  \/ PollSample
  \/ DispatchFrame(LiveHeadings)
  \/ PollDelay(0)
  \/ PlaybackFinish

SpecDrive == Init /\ [][NextDrive]_vars

\* Recordings as long as the frame bound of loadFromSD(): the recorder run
\* for thousands of control-loop iterations at a time, and the persistence
\* layer.
NextLong ==
  \/ startRecording
  \/ \E s \in LongSamples, n \in RunLengths : RecordRun(s, n)
  \/ \E card \in BOOLEAN : saveToSD(card)
  \/ \E card \in BOOLEAN : loadFromSD(card)

SpecLong == Init /\ [][NextLong]_vars

\* ------------------------------------------------------------------ claims
Button == BTN_R1..BTN_B
LatchOf(bit) == <<"intakeForward", "intakeReverse", "outtakeForward",
                  "outtakeReverse", "midScoring", "descore", "unloader">>[bit + 1]
PlaybackDone == pc = "idle" /\ lastCall.op = "playback" /\ lastCall.ret = "void"
Idle == ~_isRecording /\ ~_isPlaying
InPlayback == lastCall.op = "playback" /\ lastCall.ret \in {"running", "void"}

\* C1: every playback run starts with all toggle latches false, and a run
\* that directly follows a completed run on the same log produces the same
\* latch values and toggle commands, frame by frame.
C1_IdempotentPlayback ==
  /\ InPlayback => startLatch = NoLatch
  /\ (PlaybackDone /\ prevRun.valid /\ prevRun.log = recording)
       => Toggles(dispatched) = prevRun.trace

\* C2: the Recording flag and the Playing flag are never both true.
C2_MutualExclusion == ~(_isRecording /\ _isPlaying)

\* C3: after loadFromSD() on an opened file whose count exceeds 15000 the
\* call has returned failure and the in-memory log is empty.
C3_BoundEnforcement ==
  (/\ lastCall.op = "loadFromSD" /\ lastCall.fopen = "ok"
   /\ Len(file.hdr) = 1 /\ file.hdr[1] > MAX_FRAMES)
    => lastCall.ret = "false" /\ recording = <<>>

\* C4: after loadFromSD() on an opened file that holds fewer frame records
\* than its count claims the call has returned failure and the log is empty;
\* after a load that returned success the log is the whole stored sequence.
C4_AtomicLoad ==
  /\ (/\ lastCall.op = "loadFromSD" /\ lastCall.fopen = "ok"
      /\ Len(file.hdr) = 1 /\ Len(file.blocks) < file.hdr[1])
       => lastCall.ret = "false" /\ recording = <<>>
  /\ (lastCall.op = "loadFromSD" /\ lastCall.ret = "true")
       => /\ Len(recording) = file.hdr[1]
          /\ \A i \in 1..Len(recording) : recording[i] = DecodeFrame(file.blocks[i])

\* C5: loadFromSD() on the file a successful save wrote (the file intact and
\* opened, the saved log within the frame bound) returns success and leaves
\* the in-memory log equal to the saved log, whatever the log was before.
C5_RoundTrip ==
  (/\ lastCall.op = "loadFromSD" /\ lastCall.fopen = "ok"
   /\ savedLog.valid /\ Len(savedLog.log) <= MAX_FRAMES)
    => lastCall.ret = "true" /\ recording = savedLog.log

C5_Witness ==
  /\ lastCall.op = "loadFromSD" /\ lastCall.fopen = "ok" /\ savedLog.valid
  /\ Len(recording) >= 2
  /\ recording[1].leftStick < 0
  /\ recording[2].timestamp > recording[1].timestamp

\* C6 as stated: recordFrame() outside Recording changes nothing, and the
\* log grows only in a recordFrame() call made while Recording.
RecordNoOp ==
  (recordFrame(Samples, MaxFrames) /\ ~_isRecording)
    => UNCHANGED <<recording, _isRecording, _isPlaying, recordStartTime, file>>

C6_GrowsOnlyByRecordFrame ==
  [][/\ RecordNoOp
     /\ Len(recording') > Len(recording)
          => lastCall'.op = "recordFrame" /\ _isRecording]_vars

\* C6 (amended): recordFrame() outside Recording changes neither the log,
\* the session state, the start time nor the file; the log grows only in a
\* recordFrame() call made while Recording or in a successful load
\* (loadFromSD(), or the load playback() makes on an empty log).
C6_RecordFrameNoOp ==
  [][/\ RecordNoOp
     /\ Len(recording') > Len(recording)
          => \/ lastCall'.op = "recordFrame" /\ _isRecording
             \/ lastCall'.op = "loadFromSD" /\ lastCall'.ret = "true"
             \/ lastCall'.op = "playback" /\ lastCall'.fopen = "ok"
                  /\ recording = <<>>]_vars

C6_Witness ==
  /\ lastCall.op = "recordFrame" /\ ~_isRecording
  /\ recording # <<>> /\ file.exists

\* C7: playback() on an empty log whose load succeeds with zero frames
\* reports "no recording", does not enter Playing, resets no heading and
\* issues no actuator command.
C7_ZeroFrameStoredLog ==
  (/\ lastCall.op = "playback" /\ lastCall.fopen = "ok"
   /\ file.hdr = <<0>> /\ recording = <<>>)
    => /\ lastCall.ret = "norecording" /\ out = <<"NO RECORDING!">>
       /\ ~_isPlaying /\ pc = "idle" /\ imuResets = 0 /\ cmds = 0

\* C8: playback() with an empty log whose file cannot be opened prints
\* "NO RECORDING!" and returns; the log stays empty, the session state, the
\* latches, the heading reference and every actuator are as before, and no
\* actuator command is issued.
C8_EmptyLogNoStorage ==
  [][((\E card \in BOOLEAN : PlaybackBegin(card, MaxStart))
        /\ recording = <<>> /\ lastCall'.fopen = "fail")
       => /\ lastCall'.ret = "norecording" /\ out' = <<"NO RECORDING!">>
          /\ pc' = "idle" /\ ~_isPlaying' /\ recording' = <<>>
          /\ cmds' = 0 /\ imuResets' = 0
          /\ UNCHANGED <<_isRecording, _isPlaying, actuators, statics,
                         imuHeading, file>>]_vars

C8_Witness ==
  /\ lastCall.op = "playback" /\ lastCall.fopen = "fail"
  /\ lastCall.ret = "norecording" /\ ~_isRecording /\ file.exists

\* C9: the i-th frame dispatched is frame i of the log, never before its
\* timestamp has elapsed; a completed run has dispatched every frame; and a
\* poll ends only when the log is exhausted or the frame at its head is not
\* yet due at the elapsed time the poll sampled.
C9_State ==
  InPlayback =>
    /\ \A i \in 1..Len(dispatched) :
         /\ dispatched[i].idx = i
         /\ recording[i].timestamp <= dispatched[i].elapsed
         /\ i > 1 => dispatched[i - 1].elapsed <= dispatched[i].elapsed
    /\ pc \in {"loop", "frames"} =>
         /\ Len(dispatched) = frameIndex
         /\ elapsed <= Sub32(now, playStartTime)
    /\ PlaybackDone => Len(dispatched) = Len(recording)

C9_OrderedTimelyDispatch ==
  /\ []C9_State
  /\ [][(pc = "frames" /\ pc' = "loop")
          => \/ frameIndex = Len(recording)
             \/ recording[frameIndex + 1].timestamp > elapsed]_vars

\* a completed run of three frames: one dispatched alone, then two in one
\* poll that came late
C9_Witness ==
  /\ PlaybackDone
  /\ Len(dispatched) >= 3
  /\ dispatched[1].elapsed < dispatched[2].elapsed
  /\ dispatched[2].elapsed = dispatched[3].elapsed
  /\ dispatched[2].elapsed > recording[2].timestamp

\* C10: a dispatch flips the latch of a button exactly when the button's
\* bit is set in the dispatched frame and was not set in the frame
\* dispatched before it (no frame before the first), and no other step of a
\* run changes a latch.
RisingInLog(i, bit) ==
  /\ Bit(recording[i].buttons, bit)
  /\ i = 1 \/ ~Bit(recording[i - 1].buttons, bit)

C10_RisingEdgeToggles ==
  [][IF pc = "frames" /\ frameIndex' = frameIndex + 1
     THEN \A bit \in Button :
            (statics'[LatchOf(bit)] # statics[LatchOf(bit)])
              <=> RisingInLog(frameIndex + 1, bit)
     ELSE statics' = statics]_vars

\* a button held over two frames dispatched in different polls, then
\* released and pressed again
C10_Witness ==
  /\ PlaybackDone
  /\ Len(dispatched) >= 3
  /\ recording[1].buttons = 85 /\ recording[2].buttons = 85
  /\ recording[3].buttons = 102
  /\ dispatched[1].elapsed < dispatched[2].elapsed
  /\ dispatched[2].latch = dispatched[1].latch

\* C11: when a playback() that ran its dispatch loop has returned, the
\* session is Idle and the last command to every actuator is its neutral
\* value: both drive sides, intake and outtake 0, and the mid-scoring,
\* descore and unloader pistons retracted.
C11_NeutralOnExit == PlaybackDone => Idle /\ actuators = Neutral

\* a playback() call is past its load and has not returned
Running == lastCall.op = "playback" /\ lastCall.ret = "running"

\* the loop of playback() is left only when the frame index equals the log
\* length and every frame has been dispatched, and a frame is dispatched
\* only while the index is below the log length
ExitExact ==
  /\ (pc # "idle" /\ pc' = "idle")
       => frameIndex = Len(recording) /\ Len(dispatched) = Len(recording)
  /\ Len(dispatched') > Len(dispatched) => frameIndex < Len(recording)

\* every playback() call on a non-empty log eventually returns, and has
\* then cleared the Playing flag and dispatched every frame (holds under
\* SpecFair)
PlaybackTerminates ==
  /\ [][ExitExact]_vars
  /\ [](PlaybackDone => ~_isPlaying /\ Len(dispatched) = Len(recording))
  /\ (Running /\ recording # <<>>) ~> PlaybackDone

\* C12: every playback() call that finds a non-empty log eventually
\* dispatches the last frame and returns with the session Idle; the poll
\* loop exits exactly when the frame index equals the log length, not
\* before the last frame has been dispatched, and no frame is dispatched
\* after that.
C12_RunsToCompletion ==
  /\ [][ExitExact]_vars
  /\ []((PlaybackDone /\ recording # <<>>)
          => Idle /\ Len(dispatched) = Len(recording))
  /\ (Running /\ recording # <<>>) ~> PlaybackDone

\* the frame of the last dispatch
LastFrame == recording[Len(dispatched)]
Abs(n) == IF n < 0 THEN -n ELSE n

\* C13: for every dispatched frame, whatever its stick values (-128
\* included), its heading, the live heading and the gain, the correction
\* applied lies in [-30, 30] (held in tenths) and the left and right drive
\* commands issued lie in [-127, 127]; with gain 2.0 and a heading error of
\* 40 degrees the correction is 30.
C13_CommandRange ==
  applied.valid =>
    /\ applied.corr10 \in (-10 * MaxCorrection)..(10 * MaxCorrection)
    /\ applied.left \in (-MotorMax)..MotorMax
    /\ applied.right \in (-MotorMax)..MotorMax
    /\ actuators.left_motors = applied.left
    /\ actuators.right_motors = applied.right
    /\ (imuCorrectionGain = 20 /\ applied.error = 40)
         => applied.corr10 = 10 * MaxCorrection

\* gain 2.0 and error 40 on a frame whose sticks are -128 and 127: the
\* correction is clamped to 30 and both commands are clamped
C13_Witness ==
  /\ applied.valid
  /\ imuCorrectionGain = 20 /\ applied.error = 40 /\ applied.corr10 = 300
  /\ LastFrame.leftStick = -128 /\ LastFrame.rightStick = 127
  /\ applied.left = -MotorMax /\ applied.right = MotorMax

\* the wrap part of C14: the error is congruent to recorded - live modulo
\* 360 and at most 180 in absolute value; 10 against 350 gives 20 and 350
\* against 10 gives -20
WrapLaw ==
  /\ (applied.error - (LastFrame.heading - applied.live)) % 360 = 0
  /\ Abs(applied.error) <= 180
  /\ (LastFrame.heading = 10 /\ applied.live = 350) => applied.error = 20
  /\ (LastFrame.heading = 350 /\ applied.live = 10) => applied.error = -20

\* C14 as stated: for recorded and live headings in [0, 360) the wrap law
\* holds, and equal headings give error 0 and left/right commands equal to
\* the recorded stick values.
C14_HeadingWrapExact ==
  applied.valid =>
    /\ WrapLaw
    /\ LastFrame.heading = applied.live
         => /\ applied.error = 0 /\ applied.corr10 = 0
            /\ applied.left = LastFrame.leftStick
            /\ applied.right = LastFrame.rightStick

\* C14 (amended): for recorded and live headings in [0, 360) the wrap law
\* holds, and equal headings give error 0 and left/right commands equal to
\* the recorded stick values clamped to [-127, 127].
C14_HeadingWrap ==
  applied.valid =>
    /\ WrapLaw
    /\ LastFrame.heading = applied.live
         => /\ applied.error = 0 /\ applied.corr10 = 0
            /\ applied.left = Clamp(LastFrame.leftStick, -MotorMax, MotorMax)
            /\ applied.right = Clamp(LastFrame.rightStick, -MotorMax, MotorMax)

\* a dispatch whose unwrapped error is -340, on a frame with stick -128
C14_Witness ==
  /\ applied.valid
  /\ LastFrame.heading = 10 /\ applied.live = 350 /\ applied.error = 20
  /\ LastFrame.leftStick = -128

\* C15: while the session is Recording, a recordFrame(), clearRecording(),
\* saveToSD() or loadFromSD() call leaves the log unchanged or appends
\* exactly one frame at its end.
C15_AppendOnlyWhileRecording ==
  [][(/\ _isRecording
      /\ lastCall'.op \in {"recordFrame", "clearRecording", "saveToSD",
                           "loadFromSD"})
       => \/ recording' = recording
          \/ /\ Len(recording') = Len(recording) + 1
             /\ SubSeq(recording', 1, Len(recording)) = recording]_vars

\* C16: startRecording() leaves the log empty (frame count 0, duration 0),
\* the session Recording, the heading reference reset to zero, the start
\* instant equal to the current time and the stored file as it was; no
\* other call changes the start instant, and the frame a recordFrame() call
\* appends carries the time elapsed since the start instant.
C16_StartRecordingPost ==
  [][/\ startRecording
          => /\ recording' = <<>> /\ getFrameCount' = 0 /\ getDuration' = 0
             /\ _isRecording' /\ ~_isPlaying'
             /\ imuHeading' = 0 /\ imuResets' = 1
             /\ recordStartTime' = now
             /\ file' = file
     /\ recordStartTime' # recordStartTime => lastCall'.op = "startRecording"
     /\ (recordFrame(Samples, MaxFrames) /\ _isRecording)
          => /\ Len(recording') = Len(recording) + 1
             /\ recording'[Len(recording')].timestamp = now - recordStartTime
             /\ getDuration' = now - recordStartTime]_vars

\* a second recording started later than time 0, over a stored file that
\* holds frames
C16_Witness ==
  /\ lastCall.op = "startRecording"
  /\ now > 0 /\ recordStartTime = now
  /\ recording = <<>> /\ file.exists /\ file.blocks # <<>>

\* C17: stopRecording(persist) leaves the session not Recording and the
\* log unchanged; when persist is true and the file can be opened the file
\* afterwards holds the count of the log and its frames in order; when
\* persist is false or the file cannot be opened the file is unchanged.
C17_StopRecordingPost ==
  [][\A persist \in BOOLEAN, card \in BOOLEAN :
       stopRecording(persist, card)
         => /\ ~_isRecording'
            /\ recording' = recording
            /\ IF persist /\ card
               THEN /\ file'.exists
                    /\ file'.hdr = <<Len(recording)>>
                    /\ Len(file'.blocks) = Len(recording)
                    /\ \A i \in 1..Len(recording) :
                         DecodeFrame(file'.blocks[i]) = recording[i]
               ELSE file' = file]_vars

\* a recording of two frames stopped and saved
C17_Witness ==
  /\ lastCall.op = "stopRecording" /\ lastCall.fopen = "ok"
  /\ ~_isRecording /\ Len(recording) = 2
  /\ recording[1].leftStick < 0
  /\ file.hdr = <<2>> /\ Len(file.blocks) = 2

\* C18: stopRecording(TRUE) called while the session is not Recording
\* changes neither the session state, nor the log, nor the stored file.
C18_WrongStateStopIgnored ==
  [][\A card \in BOOLEAN :
       (stopRecording(TRUE, card) /\ ~_isRecording)
         => UNCHANGED <<_isRecording, _isPlaying, recording, file>>]_vars

\* C19: playback() opens the stored file only in its first step and only
\* when the log is empty at the call; on a non-empty log it goes on to
\* replay with the log and the file as they were; no later step of the
\* call opens or changes the file or changes the log; and the run has
\* dispatched frames 1..n of that log, in order, when it returns.
C19_MemoryFirst ==
  /\ [][/\ \A card \in BOOLEAN :
             PlaybackBegin(card, MaxStart)
               => /\ lastCall'.fopen # "none" => recording = <<>>
                  /\ recording # <<>>
                       => /\ lastCall'.fopen = "none"
                          /\ lastCall'.ret = "running"
                          /\ recording' = recording /\ file' = file
        /\ pc # "idle"
             => /\ recording' = recording /\ file' = file
                /\ lastCall'.fopen = lastCall.fopen]_vars
  /\ [](PlaybackDone
         => /\ Len(dispatched) = Len(recording)
            /\ \A i \in 1..Len(dispatched) : dispatched[i].idx = i)

\* a completed replay of a log in memory while the card holds a file with
\* a different number of frames
C19_Witness ==
  /\ PlaybackDone /\ lastCall.fopen = "none"
  /\ Len(recording) = 2 /\ Len(dispatched) = 2
  /\ file.exists /\ file.hdr = <<1>>

\* C20: the in-memory log never holds more than MAX_FRAMES frames, and a
\* loadFromSD() on the intact file of a successful save returns success
\* and leaves the log equal to the saved log.
C20_SavedLogsLoadable ==
  /\ Len(recording) <= MAX_FRAMES
  /\ (lastCall.op = "loadFromSD" /\ lastCall.fopen = "ok" /\ savedLog.valid)
       => lastCall.ret = "true" /\ recording = savedLog.log

====
